---- MODULE Spec2Model ----
(***************************************************************************)
(* Sweep-line segment intersection driver (src/src/isect/sweep.ts).        *)
(*                                                                         *)
(* The driver `isect(segments, options)` owns an event schedule and a      *)
(* sweep status; `addSegment` ingests segments, `run()` / `step()` pop     *)
(* events and `handleEventPoint` classifies, reports, updates the status   *)
(* and probes for new events (`findNewEvent`).                             *)
(*                                                                         *)
(* Coordinates are JavaScript numbers in the source.  They are modelled as *)
(* exact rationals [n, d] (d > 0, lowest terms); every tolerance test of   *)
(* the source (EPS, the near-zero dy threshold) is kept as a test against  *)
(* a rational threshold.                                                   *)
(*                                                                         *)
(* The collaborators imported at sweep.ts:1-5 (create-event-queue,         *)
(* sweep-status, sweep-event, geom) are not part of src/; they are         *)
(* modelled from sections 4.1-4.3 of spec.md.                              *)
(***************************************************************************)
EXTENDS Integers, Sequences, FiniteSets, TLC

\* ------------------------------------------------------------------ bounds

\* Largest number of segments handed to the driver.
MaxSegs == 3

\* Events are handled only while the callback has been invoked fewer than
\* MaxCalls times (a sweep that keeps rescheduling a point reports it
\* forever).
MaxCalls == 8

\* ------------------------------------------------------- number arithmetic

Abs(n) == IF n < 0 THEN -n ELSE n

RECURSIVE GCD(_, _)
GCD(a, b) == IF b = 0 THEN a ELSE GCD(b, a % b)

\* The rational n/d in lowest terms with a positive denominator.
Rat(n, d) ==
  LET g == GCD(Abs(n), Abs(d))
      s == IF d < 0 THEN -1 ELSE 1
  IN  [n |-> (s * n) \div g, d |-> (s * d) \div g]

Num(k) == [n |-> k, d |-> 1]

RSub(a, b) == Rat(a.n * b.d - b.n * a.d, a.d * b.d)
RAdd(a, b) == Rat(a.n * b.d + b.n * a.d, a.d * b.d)
RMul(a, b) == Rat(a.n * b.n, a.d * b.d)
RDiv(a, b) == Rat(a.n * b.d, a.d * b.n)
RNeg(a) == [n |-> -a.n, d |-> a.d]
RAbs(a) == [n |-> Abs(a.n), d |-> a.d]
RLt(a, b) == a.n * b.d < b.n * a.d
RLe(a, b) == a.n * b.d <= b.n * a.d

Pt(x, y) == [x |-> Num(x), y |-> Num(y)]

\* ------------------------------------------------------ geometry (geom)

\* The geometric tolerance is 1/EpsDen; the near-zero dy threshold of
\* addSegment is 1/DyDen (coarser than the tolerance, as in the source).
EpsDen == 1000
DyDen == 100

EPS == Rat(1, EpsDen)
DyThreshold == Rat(1, DyDen)

\* samePoint(a, b): both coordinate differences are below EPS.
samePoint(a, b) ==
  /\ RLt(RAbs(RSub(a.x, b.x)), EPS)
  /\ RLt(RAbs(RSub(a.y, b.y)), EPS)

\* angle(dy, dx): a key for the direction of a segment that does not depend
\* on its length.  For the canonical segments of the driver (dy >= 0) the
\* key decreases as the direction turns from pointing left, through
\* pointing straight down, to pointing right along the sweep line.
angle(dy, dx) ==
  IF dy.n = 0 /\ dx.n = 0 THEN Num(0)
  ELSE LET p == RDiv(dy, RAdd(RAbs(dy), RAbs(dx)))
       IN  IF dx.n < 0 THEN RSub(p, Num(1)) ELSE RSub(Num(1), p)

\* intersectSegments(a, b): the point where the two segments meet, as a set
\* of at most one point; nothing for parallel or non-meeting segments.
intersectSegments(a, b) ==
  LET p0 == a.from
      p2 == b.from
      div == RSub(RMul(a.dx, b.dy), RMul(b.dx, a.dy))
  IN  IF div.n = 0 THEN {}
      ELSE
        LET s == RDiv(RSub(RMul(a.dy, RSub(p0.x, p2.x)),
                           RMul(a.dx, RSub(p0.y, p2.y))), div)
            t == RDiv(RAdd(RMul(b.dx, RSub(p2.y, p0.y)),
                           RMul(b.dy, RSub(p0.x, p2.x))), div)
        IN  IF RLt(s, Num(0)) \/ RLt(Num(1), s) THEN {}
            ELSE IF RLe(Num(0), t) /\ RLe(t, Num(1))
                 THEN {[x |-> RSub(p0.x, RMul(t, a.dx)),
                        y |-> RSub(p0.y, RMul(t, a.dy))]}
                 ELSE {}

\* ------------------------------------------------ module-level helpers

\* roundNearZero(point): coordinates closer to zero than EPS become zero.
roundNearZero(point) ==
  [x |-> IF RLt(RAbs(point.x), EPS) THEN Num(0) ELSE point.x,
   y |-> IF RLt(RAbs(point.y), EPS) THEN Num(0) ELSE point.y]

\* union(a, b): concatenation (an absent list is the empty list here).
union(a, b) == a \o b

\* byY(a, b): decreasing y, then increasing x, near-equal collapsing to 0.
byY(a, b) ==
  LET res == RSub(b.y, a.y)
  IN  IF RLt(RAbs(res), EPS)
      THEN LET rx == RSub(a.x, b.x)
           IN  IF RLt(RAbs(rx), EPS) THEN Num(0) ELSE rx
      ELSE res

\* ------------------------------------- event schedule (create-event-queue)

\* new SweepEvent(point, segment): `from` lists the segments starting here.
SweepEvent(point, from) == [point |-> point, from |-> from, isReported |-> FALSE]

\* The schedule is the sequence of its events in comparator order.
RECURSIVE EQFindIndex(_, _, _)
EQFindIndex(q, point, i) ==
  IF i > Len(q) THEN 0
  ELSE IF byY(point, q[i].point).n = 0 THEN i
  ELSE EQFindIndex(q, point, i + 1)

\* eventQueue.find(point): index of the event at that point, 0 when none.
EQFind(q, point) == EQFindIndex(q, point, 1)

\* eventQueue.insert(event): an event at a point already scheduled is kept,
\* the new one is dropped; otherwise the event takes its place in the order.
EQInsert(q, event) ==
  IF EQFind(q, event.point) # 0 THEN q
  ELSE LET k == Cardinality({i \in 1..Len(q) :
                               byY(q[i].point, event.point).n < 0})
       IN  SubSeq(q, 1, k) \o <<event>> \o SubSeq(q, k + 1, Len(q))

\* --------------------------------------------- sweep status (sweep-status)

\* The status is the sequence of its segments from left to right.

Horizontal(s) == RLt(RAbs(s.dy), EPS)

\* x-coordinate at which segment s meets the sweep line through p; for a
\* horizontal segment the point of it nearest to p.
XAt(s, p) ==
  IF Horizontal(s)
  THEN IF RLe(p.x, s.from.x) THEN s.from.x
       ELSE IF RLt(s.to.x, p.x) THEN s.to.x ELSE p.x
  ELSE RSub(s.from.x, RMul(RSub(s.from.y, p.y), RDiv(s.dx, s.dy)))

\* Segment s passes through p, within tolerance.
Through(s, p) ==
  /\ RLt(RAbs(RSub(p.x, XAt(s, p))), EPS)
  /\ Horizontal(s) => RLt(RAbs(RSub(s.from.y, p.y)), EPS)

\* findSegmentsWithPoint(point, visitor): the tracked segments through the
\* point, in the order the visitor is called.
findSegmentsWithPoint(status, point) ==
  SelectSeq(status, LAMBDA s : Through(s, point))

Ids(segs) == {segs[i].id : i \in 1..Len(segs)}

\* deleteSegments(lower, interior, atPoint)
deleteSegments(status, lower, interior, atPoint) ==
  SelectSeq(status, LAMBDA s : s.id \notin Ids(lower) \cup Ids(interior))

\* e is ordered before s just below the sweep point: by x on the sweep
\* line, ties by direction.
SegBefore(e, s, atPoint) ==
  LET xe == XAt(e, atPoint)
      xs == XAt(s, atPoint)
  IN  IF RLt(RAbs(RSub(xe, xs)), EPS)
      THEN RLe(s.angle, e.angle)
      ELSE RLt(xe, xs)

InsertOne(status, s, atPoint) ==
  LET k == Cardinality({i \in 1..Len(status) :
                          SegBefore(status[i], s, atPoint)})
  IN  SubSeq(status, 1, k) \o <<s>> \o SubSeq(status, k + 1, Len(status))

RECURSIVE InsertAll(_, _, _)
InsertAll(status, segs, atPoint) ==
  IF segs = <<>> THEN status
  ELSE InsertAll(InsertOne(status, Head(segs), atPoint), Tail(segs), atPoint)

\* insertSegments(interior, upper, atPoint)
insertSegments(status, interior, upper, atPoint) ==
  InsertAll(status, interior \o upper, atPoint)

MaxOf(S) == CHOOSE m \in S : \A n \in S : n <= m
MinOf(S) == CHOOSE m \in S : \A n \in S : m <= n

\* An optional segment is a sequence of at most one segment.
At(status, i) == IF i >= 1 /\ i <= Len(status) THEN <<status[i]>> ELSE <<>>

\* getLeftRightPoint(point): the neighbours of the position of the point.
getLeftRightPoint(status, point) ==
  LET L == {i \in 1..Len(status) : RLt(XAt(status[i], point), point.x)}
      k == IF L = {} THEN 0 ELSE MaxOf(L)
  IN  [left |-> At(status, k), right |-> At(status, k + 1)]

\* getBoundarySegments(upper, interior): the leftmost and rightmost of
\* upper and interior in the status, and their outer neighbours.
getBoundarySegments(status, upper, interior) ==
  LET B == {i \in 1..Len(status) :
              status[i].id \in Ids(upper) \cup Ids(interior)}
      lo == IF B = {} THEN 0 ELSE MinOf(B)
      hi == IF B = {} THEN 0 ELSE MaxOf(B)
  IN  [beforeLeft |-> At(status, lo - 1),
       left |-> At(status, lo),
       right |-> At(status, hi),
       afterRight |-> IF hi = 0 THEN <<>> ELSE At(status, hi + 1)]

\* ------------------------------------------------------ the sweep driver

\* Segments handed to the driver: each a pair of points.  The pool mixes
\* crossing, touching, collinear, vertical, zero-length and repeated
\* segments, in both orientations, with rational crossings, one endpoint
\* closer to zero than EPS and one pair of endpoints whose y differ by
\* less than the near-zero dy threshold, given in both orders (addSegment
\* makes both horizontal).  The last two are a
\* segment through the origin and a flat segment that crosses it, and the
\* diagonal ending at the origin, closer to the origin than EPS in both
\* coordinates while staying farther than EPS from the origin itself.
RawSeg(fx, fy, tx, ty) == [from |-> Pt(fx, fy), to |-> Pt(tx, ty)]

Pool ==
  { RawSeg(0, 4, 4, 0),
    RawSeg(0, 0, 4, 4),
    RawSeg(2, 4, 2, 0),
    RawSeg(2, 2, 2, 2),
    RawSeg(1, 3, 3, 1),
    [from |-> [x |-> Rat(1, 2 * EpsDen), y |-> Num(4)], to |-> Pt(4, 0)],
    [from |-> Pt(0, 3), to |-> [x |-> Num(4), y |-> Rat(6 * DyDen + 1, 2 * DyDen)]],
    [from |-> [x |-> Num(4), y |-> Rat(6 * DyDen + 1, 2 * DyDen)], to |-> Pt(0, 3)],
    RawSeg(-1, -2, 2, 4),
    [from |-> [x |-> Rat(12 - 10 * EpsDen, 5 * EpsDen), y |-> Num(1)],
     to |-> [x |-> Rat(12 + 10 * EpsDen, 5 * EpsDen), y |-> Num(-1)]] }

VARIABLES
  segments,     \* the segments ingested so far, as addSegment left them
  eventQueue,   \* the event schedule, in comparator order
  sweepStatus,  \* the sweep status, left to right
  results,      \* the driver's results list (defaultIntersectionReporter)
  calls,        \* every invocation of the intersection callback, with its answer
  lower,        \* closure variable `lower` of the last handled event
  interior,     \* closure variable `interior` of the last handled event
  lastPoint,    \* closure variable `lastPoint` (none before the first event)
  eventPoint,   \* the event popped last (none before the first pop)
  errors,       \* number of onError invocations
  onFound,      \* options.onFound (see OnFoundOptions)
  pc,           \* "ingest": in the constructor; "idle"; "running": inside run()
  runReturn,    \* what the last run() returned
  stepReturn,   \* what the last step() returned
  tree,         \* a RedBlackTree<number> under test
  held,         \* the values added to the tree and not deleted since
  removed,      \* the values deleted from the tree at some time
  argLhs,       \* first argument of the comparison functions
  argRhs,       \* second argument of the comparison functions
  answer        \* the comparison function called last and what it returned

vars == <<segments, eventQueue, sweepStatus, results, calls, lower, interior,
          lastPoint, eventPoint, errors, onFound, pc, runReturn, stepReturn>>

treeVars == <<tree, held, removed>>

compareVars == <<argLhs, argRhs, answer>>

allVars == <<vars, treeVars, compareVars>>

\* The driver's own state as one value.
Driver ==
  [segments |-> segments, eventQueue |-> eventQueue,
   sweepStatus |-> sweepStatus, results |-> results, calls |-> calls,
   lower |-> lower, interior |-> interior, lastPoint |-> lastPoint,
   eventPoint |-> eventPoint, errors |-> errors]

Install(d) ==
  /\ segments' = d.segments
  /\ eventQueue' = d.eventQueue
  /\ sweepStatus' = d.sweepStatus
  /\ results' = d.results
  /\ calls' = d.calls
  /\ lower' = d.lower
  /\ interior' = d.interior
  /\ lastPoint' = d.lastPoint
  /\ eventPoint' = d.eventPoint
  /\ errors' = d.errors

EmptyDriver ==
  [segments |-> <<>>, eventQueue |-> <<>>, sweepStatus |-> <<>>,
   results |-> <<>>, calls |-> <<>>, lower |-> <<>>, interior |-> <<>>,
   lastPoint |-> <<>>, eventPoint |-> <<>>, errors |-> 0]

\* defaultIntersectionReporter(p, segments): push onto results; no answer.
defaultIntersectionReporter(d, p, segs) ==
  [d EXCEPT !.results = Append(@, [point |-> p, segments |-> segs])]

\* reportIntersection(p, segs): options.onFound when supplied (its answer is
\* `ans`), else defaultIntersectionReporter, whose answer is never truthy.
reportIntersection(d, custom, p, segs, ans) ==
  LET logged == [d EXCEPT !.calls = Append(@, [point |-> p, segments |-> segs,
                                               answer |-> custom /\ ans])]
  IN  IF custom THEN logged ELSE defaultIntersectionReporter(logged, p, segs)

\* ---- addSegment

\* Lines 253-260: endpoints whose y differ by less than the threshold get
\* the same y (`from.y = to.y`).
SnapDy(from, to) ==
  IF RLt(RAbs(RSub(from.y, to.y)), DyThreshold)
  THEN [from EXCEPT !.y = to.y] ELSE from

\* An order test that looks at y only.
MustSwap_yOnly(from, to) == RLt(from.y, to.y)

\* Line 262: the endpoints are in the wrong order.
MustSwap(from, to) ==
  RLt(from.y, to.y) \/ (from.y = to.y /\ RLt(to.x, from.x))

\* Lines 272-274: the derived fields dy, dx and angle.
Derived(id, from, to) ==
  [id |-> id, from |-> from, to |-> to,
   dy |-> RSub(from.y, to.y), dx |-> RSub(from.x, to.x),
   angle |-> angle(RSub(from.y, to.y), RSub(from.x, to.x))]

\* Lines 262-274.
Oriented(id, from, to) ==
  IF MustSwap(from, to) THEN Derived(id, to, from) ELSE Derived(id, from, to)

\* Lines 246-274: the segment as addSegment leaves it; id is its position
\* among the ingested segments (the identity of the segment object).
Canonical(segment, id) ==
  Oriented(id,
           SnapDy(roundNearZero(segment.from), roundNearZero(segment.to)),
           roundNearZero(segment.to))

\* A test that takes no segment for a point.
IsPoint_never(segment) == FALSE

\* Line 276.
IsPoint(segment) == segment.dy = segment.dx /\ segment.dy.n = 0

\* A scan that never finds an identical segment.
SameToIndex_neverFound(prevFrom, to, i) == 0

\* Index of the first segment of prevFrom whose `to` is the same point as
\* `to`, 0 when there is none (the scan of lines 286-295).
RECURSIVE SameToIndex(_, _, _)
SameToIndex(prevFrom, to, i) ==
  IF i > Len(prevFrom) THEN 0
  ELSE IF samePoint(prevFrom[i].to, to) THEN i
  ELSE SameToIndex(prevFrom, to, i + 1)

\* Lines 290-293: both endpoints of the segment s already scheduled are
\* reported; a1 and a2 are the answers of options.onFound (both ignored).
ReportIdentical(d, custom, s, a1, a2) ==
  reportIntersection(
    reportIntersection(d, custom, s.from, <<s.from, s.to>>, a1),
    custom, s.to, <<s.from, s.to>>, a2)

\* The segment always gets an event of its own, handed to insert.
ScheduleFrom_alwaysNew(q, segment, prev) ==
  EQInsert(q, SweepEvent(segment.from, <<segment>>))

\* Lines 300-307: the segment joins the event at its `from` point.
ScheduleFrom(q, segment, prev) ==
  IF prev # 0
  THEN [q EXCEPT ![prev].from = Append(@, segment)]
  ELSE EQInsert(q, SweepEvent(segment.from, <<segment>>))

\* Lines 299-316.
Schedule(q, segment, prev) ==
  IF ~IsPoint(segment)
  THEN EQInsert(ScheduleFrom(q, segment, prev), SweepEvent(segment.to, <<>>))
  ELSE EQInsert(q, SweepEvent(segment.to, <<>>))

\* Lines 279-316, dup being the index found by the scan (0: none).
IngestChecked(d, custom, segment, prev, dup, a1, a2) ==
  IF dup # 0
  THEN ReportIdentical(d, custom, d.eventQueue[prev].from[dup], a1, a2)
  ELSE [d EXCEPT !.eventQueue = Schedule(@, segment, prev)]

\* Lines 277-316, prev being eventQueue.find(from) (0: none).
IngestFound(d, custom, segment, prev, a1, a2) ==
  IngestChecked(d, custom, segment, prev,
                IF prev # 0 /\ ~IsPoint(segment)
                THEN SameToIndex(d.eventQueue[prev].from, segment.to, 1)
                ELSE 0,
                a1, a2)

\* Lines 276-316.
Ingest(d, custom, segment, a1, a2) ==
  IngestFound([d EXCEPT !.segments = Append(@, segment)], custom, segment,
              EQFind(d.eventQueue, segment.from), a1, a2)

\* addSegment(segment)
addSegment(d, custom, raw, a1, a2) ==
  Ingest(d, custom, Canonical(raw, Len(d.segments) + 1), a1, a2)

\* ---- findNewEvent

\* Lines 221-235: the candidate point is looked up; current is what
\* eventQueue.find returned (0: none).  The result is the schedule and the
\* number of onError calls.
ProbeLookedUp(q, intersection, current) ==
  IF current # 0 /\ q[current].isReported
  THEN [queue |-> q, error |-> 1]
  ELSE IF current = 0
  THEN [queue |-> EQInsert(q, SweepEvent(intersection, <<>>)), error |-> 0]
  ELSE [queue |-> q, error |-> 0]

\* Lines 219-235.
ProbeAccepted(q, intersection) ==
  ProbeLookedUp(q, intersection, EQFind(q, intersection))

\* Lines 204-215 with the sweep-side test reversed: a candidate below the
\* sweep line is discarded instead of one above it.
Discarded_reversedSide(intersection, p) ==
  \/ RLt(EPS, RSub(p.point.y, intersection.y))
  \/ /\ RLt(RAbs(RSub(p.point.y, intersection.y)), EPS)
     /\ RLe(intersection.x, p.point.x)

\* Lines 204-215: the candidate is above the sweep line, or on it and not
\* to the right of p.
Discarded(intersection, p) ==
  \/ RLt(RSub(p.point.y, intersection.y), RNeg(EPS))
  \/ /\ RLt(RAbs(RSub(p.point.y, intersection.y)), EPS)
     /\ RLe(intersection.x, p.point.x)

\* Lines 200-235, found being the result of intersectSegments.
ProbeFound(q, found, p) ==
  IF found = {} THEN [queue |-> q, error |-> 0]
  ELSE IF Discarded(CHOOSE x \in found : TRUE, p)
  THEN [queue |-> q, error |-> 0]
  ELSE ProbeAccepted(q, roundNearZero(CHOOSE x \in found : TRUE))

\* findNewEvent(left, right, p): the schedule after the probe, and how often
\* onError was called (0 or 1).
findNewEvent(q, left, right, p) ==
  IF left = <<>> \/ right = <<>> THEN [queue |-> q, error |-> 0]
  ELSE ProbeFound(q, intersectSegments(left[1], right[1]), p)

\* ---- handleEventPoint

\* A visitor that files no segment as lower.
addLowerOrInterior_neverLower(s, point) ==
  IF ~samePoint(s.from, point) THEN "interior" ELSE "none"

\* addLowerOrInterior(s): where the visitor files a segment through lastPoint.
addLowerOrInterior(s, point) ==
  IF samePoint(s.to, point) THEN "lower"
  ELSE IF ~samePoint(s.from, point) THEN "interior"
  ELSE "none"

\* A test that reports only points where several segments meet.
HasReport_severalOnly(uLength, iLength, lLength) ==
  uLength + iLength + lLength > 1

\* Lines 145-152: the event is reported.
HasReport(uLength, iLength, lLength) ==
  \/ uLength + iLength + lLength > 1
  \/ /\ ~(uLength + iLength + lLength > 1)
     /\ uLength = 0 /\ lLength = 0 /\ iLength > 0

ProbeResult(d, probed) ==
  [d EXCEPT !.eventQueue = probed.queue, !.errors = @ + probed.error]

\* Lines 176-179: the two probes at the boundary of upper and interior.
ProbeBoundary(d, p, b) ==
  ProbeResult(ProbeResult(d, findNewEvent(d.eventQueue, b.beforeLeft, b.left, p)),
              findNewEvent(
                findNewEvent(d.eventQueue, b.beforeLeft, b.left, p).queue,
                b.right, b.afterRight, p))

\* Lines 166-174: the probe of the two neighbours of the point.
ProbeNeighbours(d, p, leftRight) ==
  ProbeResult(d, findNewEvent(d.eventQueue, leftRight.left, leftRight.right, p))

\* Lines 162-182.
Probe(d, p, int) ==
  IF Len(p.from) + Len(int) = 0
  THEN ProbeNeighbours(d, p, getLeftRightPoint(d.sweepStatus, p.point))
  ELSE ProbeBoundary(d, p, getBoundarySegments(d.sweepStatus, p.from, int))

\* A status update that removes the interior segments only.
UpdateStatus_keepsLower(d, p, low, int) ==
  [d EXCEPT !.sweepStatus =
     insertSegments(deleteSegments(@, <<>>, int, p.point), int, p.from, p.point)]

\* Lines 159-160.
UpdateStatus(d, p, low, int) ==
  [d EXCEPT !.sweepStatus =
     insertSegments(deleteSegments(@, low, int, p.point), int, p.from, p.point)]

\* Lines 154-182: after the report, stop being the truthy answer.
AfterReport(d, p, low, int, stop) ==
  IF stop THEN [d |-> d, ret |-> TRUE]
  ELSE [d |-> Probe(UpdateStatus(d, p, low, int), p, int), ret |-> FALSE]

\* Lines 152-157.
ReportEvent(d, custom, p, low, int, report, ans) ==
  AfterReport(
    IF report
    THEN reportIntersection([d EXCEPT !.eventPoint = <<[p EXCEPT !.isReported = TRUE]>>],
                            custom, p.point, union(int, union(low, p.from)), ans)
    ELSE [d EXCEPT !.eventPoint = <<p>>],
    p, low, int, report /\ custom /\ ans)

\* Lines 142-157, low and int being the lists the visitor built.
Classified(d, custom, p, low, int, ans) ==
  ReportEvent([d EXCEPT !.lastPoint = <<p.point>>, !.lower = low, !.interior = int],
              custom, p, low, int,
              HasReport(Len(p.from), Len(int), Len(low)), ans)

\* Lines 137-157, touching being the segments the status visits.
Visited(d, custom, p, touching, ans) ==
  Classified(d, custom, p,
    SelectSeq(touching, LAMBDA s : addLowerOrInterior(s, p.point) = "lower"),
    SelectSeq(touching, LAMBDA s : addLowerOrInterior(s, p.point) = "interior"),
    ans)

\* handleEventPoint(p): the driver after the event, and the value returned.
\* `ans` is the answer of options.onFound, if it is supplied and called.
handleEventPoint(d, custom, p, ans) ==
  Visited(d, custom, p, findSegmentsWithPoint(d.sweepStatus, p.point), ans)

\* ---- run() as a function of the driver

\* Lines 103-110 for one popped event: the loop goes on unless the handler
\* returned true.
RECURSIVE RunLoop(_, _, _)
RunNext(h, custom, ans) ==
  IF h.ret THEN h.d ELSE RunLoop(h.d, custom, ans)

\* run() on driver d: the driver when run() returns; ans is the answer
\* options.onFound gives whenever it is called.
RunLoop(d, custom, ans) ==
  IF d.eventQueue = <<>> THEN d
  ELSE RunNext(handleEventPoint([d EXCEPT !.eventQueue = Tail(@)], custom,
                                Head(d.eventQueue), ans),
               custom, ans)

\* isect(segs): the driver the constructor returns for the given segments.
RECURSIVE Constructed(_, _, _)
Constructed(segs, custom, ans) ==
  IF segs = <<>> THEN EmptyDriver
  ELSE addSegment(Constructed(SubSeq(segs, 1, Len(segs) - 1), custom, ans),
                  custom, segs[Len(segs)], ans, ans)

\* ------------------------------------------------- abstract/comparable.ts

\* Largest key of a compared value (keys are 0..MaxKey).
MaxKey == 3

\* The optional methods of a Comparable (lines 6-8).
OptionalMethods == {"lessThanOrEqual", "greaterThan", "greaterThanOrEqual"}

\* A plain value (a number): it has no NovaFlags.COMPARABLE property.
Plain(n) == [comparable |-> FALSE, key |-> n, methods |-> {}]

\* An object implementing Comparable (lines 4-10) that orders by its key and
\* implements the given optional methods.
Comparable(n, methods) == [comparable |-> TRUE, key |-> n, methods |-> methods]

\* The values compared: numbers, Comparables with lessThan only, and
\* Comparables with every optional method.
Values ==
  {Plain(n) : n \in 0..MaxKey}
    \cup {Comparable(n, {}) : n \in 0..MaxKey}
    \cup {Comparable(n, OptionalMethods) : n \in 0..MaxKey}

\* equality(lhs, rhs) of abstract/equatable, on two Comparables.
equality(lhs, rhs) == lhs.key = rhs.key

\* lessThan(lhs, rhs), lines 24-36
lessThan(lhs, rhs) ==
  IF lhs.comparable /\ rhs.comparable
  THEN lhs.key < rhs.key
  ELSE lhs.key < rhs.key

\* lessThanOrEqual(lhs, rhs), lines 38-51
lessThanOrEqual(lhs, rhs) ==
  IF lhs.comparable /\ rhs.comparable
  THEN IF "lessThanOrEqual" \in lhs.methods
       THEN lhs.key <= rhs.key
       ELSE lessThan(lhs, rhs) \/ equality(lhs, rhs)
  ELSE lhs.key <= rhs.key

\* greaterThan(lhs, rhs), lines 53-66; line 65 compares lhs with itself.
greaterThan(lhs, rhs) ==
  IF lhs.comparable /\ rhs.comparable
  THEN IF "greaterThan" \in lhs.methods
       THEN lhs.key > rhs.key
       ELSE ~lessThanOrEqual(lhs, rhs)
  ELSE lhs.key > lhs.key

\* greaterThanOrEqual(lhs, rhs), lines 68-81
greaterThanOrEqual(lhs, rhs) ==
  IF lhs.comparable /\ rhs.comparable
  THEN IF "greaterThanOrEqual" \in lhs.methods
       THEN lhs.key >= rhs.key
       ELSE ~lessThan(lhs, rhs)
  ELSE lhs.key >= rhs.key

\* ------------------------------------------------------- RedBlackTree

\* Number of distinct values the container is exercised with (0..MaxValue-1).
MaxValue == 5

\* A tree is <<>> (no node) or <<left, value, right>>.
RECURSIVE Has(_, _)
Has(node, value) ==
  IF node = <<>> THEN FALSE
  ELSE IF lessThan(Plain(value), Plain(node[2])) THEN Has(node[1], value)
  ELSE IF lessThan(Plain(node[2]), Plain(value)) THEN Has(node[3], value)
  ELSE TRUE

RECURSIVE Inserted(_, _)
Inserted(node, value) ==
  IF node = <<>> THEN << <<>>, value, <<>> >>
  ELSE IF lessThan(Plain(value), Plain(node[2]))
       THEN <<Inserted(node[1], value), node[2], node[3]>>
  ELSE IF lessThan(Plain(node[2]), Plain(value))
       THEN <<node[1], node[2], Inserted(node[3], value)>>
  ELSE node

RECURSIVE Leftmost(_)
Leftmost(node) == IF node[1] = <<>> THEN node[2] ELSE Leftmost(node[1])

\* The node is removed; one with two children takes the value of its
\* successor, which is removed from the right subtree.
RECURSIVE Removed(_, _)
Removed(node, value) ==
  IF node = <<>> THEN <<>>
  ELSE IF lessThan(Plain(value), Plain(node[2]))
       THEN <<Removed(node[1], value), node[2], node[3]>>
  ELSE IF lessThan(Plain(node[2]), Plain(value))
       THEN <<node[1], node[2], Removed(node[3], value)>>
  ELSE IF node[1] = <<>> THEN node[3]
  ELSE IF node[3] = <<>> THEN node[1]
  ELSE <<node[1], Leftmost(node[3]), Removed(node[3], Leftmost(node[3]))>>

\* new RedBlackTree()
EmptyTree == [root |-> <<>>, length |-> 0]

\* add(value)
add(t, value) ==
  IF Has(t.root, value) THEN t
  ELSE [root |-> Inserted(t.root, value), length |-> t.length + 1]

\* delete(value) that forgets to count the removal.
delete_keepsLength(t, value) ==
  IF ~Has(t.root, value) THEN t
  ELSE [root |-> Removed(t.root, value), length |-> t.length]

\* delete(value)
delete(t, value) ==
  IF ~Has(t.root, value) THEN t
  ELSE [root |-> Removed(t.root, value), length |-> t.length - 1]

\* len()
len(t) == t.length

\* traverseIn(callback): the values in the order the callback gets them.
RECURSIVE InOrder(_)
InOrder(node) ==
  IF node = <<>> THEN <<>>
  ELSE InOrder(node[1]) \o <<node[2]>> \o InOrder(node[3])

traverseIn(t) == InOrder(t.root)

\* ---------------------------------------------------------------- actions

\* options.onFound: "default" when it is not supplied (the driver uses
\* defaultIntersectionReporter), "collect" for a callback that records the
\* report and answers nothing, "stop" for one that records it and answers
\* true (it asks to stop at every intersection it is shown).
OnFoundOptions == {"default", "collect", "stop"}

\* The answer options.onFound gives when it is called.
Answers == {onFound = "stop"}

\* No tree is under test.
NoTree == tree = EmptyTree /\ held = {} /\ removed = {}

\* No comparison is under test.
NoComparison == argLhs = Plain(0) /\ argRhs = Plain(0) /\ answer = <<>>

Init ==
  /\ segments = <<>>
  /\ eventQueue = <<>>
  /\ sweepStatus = <<>>
  /\ results = <<>>
  /\ calls = <<>>
  /\ lower = <<>>
  /\ interior = <<>>
  /\ lastPoint = <<>>
  /\ eventPoint = <<>>
  /\ errors = 0
  /\ onFound \in OnFoundOptions
  /\ pc = "ingest"
  /\ runReturn = "none"
  /\ stepReturn = "none"
  /\ NoTree
  /\ NoComparison

\* isect(): segments.forEach(addSegment), one segment per step.
AddSegment ==
  /\ pc = "ingest"
  /\ Len(segments) < MaxSegs
  /\ \E raw \in Pool : \E a1 \in Answers : \E a2 \in Answers :
       Install(addSegment(Driver, onFound # "default", raw, a1, a2))
  /\ UNCHANGED <<onFound, pc, runReturn, stepReturn>>
  /\ UNCHANGED <<treeVars, compareVars>>

\* isect() returns the driver object.
Construct ==
  /\ pc = "ingest"
  /\ pc' = "idle"
  /\ UNCHANGED <<segments, eventQueue, sweepStatus, results, calls, lower,
                 interior, lastPoint, eventPoint, errors, onFound,
                 runReturn, stepReturn>>
  /\ UNCHANGED <<treeVars, compareVars>>

\* step() that pops the event but never handles it.
Step_popOnly ==
  /\ pc = "idle"
  /\ Len(calls) < MaxCalls
  /\ IF eventQueue # <<>>
     THEN /\ eventQueue' = Tail(eventQueue)
          /\ stepReturn' = "true"
          /\ UNCHANGED <<segments, sweepStatus, results, calls, lower, interior,
                         lastPoint, eventPoint, errors>>
     ELSE /\ UNCHANGED <<segments, eventQueue, sweepStatus, results, calls,
                         lower, interior, lastPoint, eventPoint, errors>>
          /\ stepReturn' = "false"
  /\ UNCHANGED <<onFound, pc, runReturn>>
  /\ UNCHANGED <<treeVars, compareVars>>

\* step() that answers whether the schedule it leaves is non-empty.
Step_returnsRemaining ==
  /\ pc = "idle"
  /\ Len(calls) < MaxCalls
  /\ IF eventQueue # <<>>
     THEN /\ \E ans \in Answers :
               Install(handleEventPoint([Driver EXCEPT !.eventQueue = Tail(@)],
                                        onFound # "default", Head(eventQueue),
                                        ans).d)
          /\ stepReturn' = IF eventQueue' # <<>> THEN "true" ELSE "false"
     ELSE /\ UNCHANGED <<segments, eventQueue, sweepStatus, results, calls,
                         lower, interior, lastPoint, eventPoint, errors>>
          /\ stepReturn' = "false"
  /\ UNCHANGED <<onFound, pc, runReturn>>
  /\ UNCHANGED <<treeVars, compareVars>>

\* step()
Step ==
  /\ pc = "idle"
  /\ Len(calls) < MaxCalls
  /\ IF eventQueue # <<>>
     THEN /\ \E ans \in Answers :
               Install(handleEventPoint([Driver EXCEPT !.eventQueue = Tail(@)],
                                        onFound # "default", Head(eventQueue),
                                        ans).d)
          /\ stepReturn' = "true"
     ELSE /\ UNCHANGED <<segments, eventQueue, sweepStatus, results, calls,
                         lower, interior, lastPoint, eventPoint, errors>>
          /\ stepReturn' = "false"
  /\ UNCHANGED <<onFound, pc, runReturn>>
  /\ UNCHANGED <<treeVars, compareVars>>

\* run() is entered.
RunCall ==
  /\ pc = "idle"
  /\ pc' = "running"
  /\ runReturn' = "pending"
  /\ UNCHANGED <<segments, eventQueue, sweepStatus, results, calls, lower,
                 interior, lastPoint, eventPoint, errors, onFound,
                 stepReturn>>
  /\ UNCHANGED <<treeVars, compareVars>>

\* Lines 106-109: the loop goes on, or run() returns undefined on a stop.
RunHandled(h) ==
  /\ Install(h.d)
  /\ pc' = IF h.ret THEN "idle" ELSE "running"
  /\ runReturn' = IF h.ret THEN "undefined" ELSE runReturn

\* One iteration of the loop of run(): pop, handle, return early on a stop.
RunIter ==
  /\ pc = "running"
  /\ eventQueue # <<>>
  /\ Len(calls) < MaxCalls
  /\ \E ans \in Answers :
       RunHandled(handleEventPoint([Driver EXCEPT !.eventQueue = Tail(@)],
                                   onFound # "default", Head(eventQueue), ans))
  /\ UNCHANGED <<onFound, stepReturn>>
  /\ UNCHANGED <<treeVars, compareVars>>

\* The loop of run() ends on an empty schedule: `return results`.
RunExit ==
  /\ pc = "running"
  /\ eventQueue = <<>>
  /\ pc' = "idle"
  /\ runReturn' = "results"
  /\ UNCHANGED <<segments, eventQueue, sweepStatus, results, calls, lower,
                 interior, lastPoint, eventPoint, errors, onFound,
                 stepReturn>>
  /\ UNCHANGED <<treeVars, compareVars>>

Next == AddSegment \/ Construct \/ Step \/ RunCall \/ RunIter \/ RunExit

Spec == Init /\ [][Next]_allVars

\* ------------------------------------------------------------- properties

\* The all-pairs reference check: every point where two distinct ingested
\* segments meet.
ReferencePoints ==
  UNION {intersectSegments(segments[i], segments[j]) :
           i \in 1..Len(segments), j \in 1..Len(segments)}

Reported(point) == \E k \in 1..Len(calls) : samePoint(calls[k].point, point)

\* No invocation of the intersection callback asked to stop.
NoStopRequested == \A k \in 1..Len(calls) : ~calls[k].answer

SweepDone == pc = "idle" /\ eventQueue = <<>>

\* C1: when the sweep has drained the schedule and no stop was requested,
\* every point where two distinct input segments meet has been reported.
C1_NoMissedIntersections ==
  (SweepDone /\ NoStopRequested) =>
     \A point \in ReferencePoints : Reported(point)

IsEndpoint(point) ==
  \E i \in 1..Len(segments) :
     samePoint(segments[i].from, point) \/ samePoint(segments[i].to, point)

\* C1 witness: run() returned its results without a stop and reported a
\* crossing that is no endpoint of any segment (found by a probe).
C1_Witness ==
  /\ SweepDone /\ NoStopRequested /\ runReturn = "results"
  /\ \E point \in ReferencePoints : ~IsEndpoint(point) /\ Reported(point)

\* C2: no two invocations of the intersection callback name the same point
\* (within EPS), and no two entries of the results list do.
C2_NoDuplicateReports ==
  /\ \A i, j \in 1..Len(calls) :
        i < j => ~samePoint(calls[i].point, calls[j].point)
  /\ \A i, j \in 1..Len(results) :
        i < j => ~samePoint(results[i].point, results[j].point)

\* The geometric extent of segment s contains the point: the point is on
\* the line of s and inside its bounding box (within EPS).
Contains(s, point) ==
  LET cross == RSub(RMul(RSub(point.x, s.from.x), s.dy),
                    RMul(RSub(point.y, s.from.y), s.dx))
      minX == IF RLt(s.from.x, s.to.x) THEN s.from.x ELSE s.to.x
      maxX == IF RLt(s.from.x, s.to.x) THEN s.to.x ELSE s.from.x
  IN  /\ RLt(RAbs(cross), EPS)
      /\ RLt(RSub(minX, EPS), point.x) /\ RLt(point.x, RAdd(maxX, EPS))
      /\ RLt(RSub(s.to.y, EPS), point.y) /\ RLt(point.y, RAdd(s.from.y, EPS))

IsSegment(v) == DOMAIN v = {"id", "from", "to", "dy", "dx", "angle"}

\* The participant list of one report names exactly the ingested segments
\* that contain the reported point, each once.
CompleteParticipants(call) ==
  /\ \A j \in 1..Len(call.segments) : IsSegment(call.segments[j])
  /\ {call.segments[j].id : j \in 1..Len(call.segments)} =
       {i \in 1..Len(segments) : Contains(segments[i], call.point)}
  /\ \A j, k \in 1..Len(call.segments) :
        j # k => call.segments[j].id # call.segments[k].id

\* C3: every report lists exactly the input segments whose extent contains
\* the reported point.
C3_CompleteParticipantSets ==
  \A k \in 1..Len(calls) : CompleteParticipants(calls[k])

\* C4: when options.onFound answers truthy to a report made inside run(),
\* run() stops there and returns the results accumulated so far.
C4_EarlyStop ==
  [][(pc = "running" /\ Len(calls') > Len(calls) /\ calls'[Len(calls')].answer)
       => (pc' = "idle" /\ runReturn' = "results")]_vars

\* A fresh driver over the same segments, after one call of run().
FreshRun ==
  RunLoop(Constructed(segments, onFound # "default", onFound = "stop"),
          onFound # "default", onFound = "stop")

\* Only step() has been called on the driver, and its last call returned
\* false.
SteppedToEnd == pc = "idle" /\ runReturn = "none" /\ stepReturn = "false"

\* C5: after step() has been called until it returned false, the results
\* list is the one a single run() leaves on a fresh driver over the same
\* segments; so is the sequence of reports the callback received, for every
\* callback that never asks to stop.
C5_StepRunEquivalence ==
  SteppedToEnd =>
     /\ results = FreshRun.results
     /\ onFound # "stop" => calls = FreshRun.calls

\* C5 witness: stepping has ended with at least two reports, one of them a
\* crossing found by a probe.
C5_Witness ==
  /\ SteppedToEnd /\ onFound = "default" /\ Len(results) >= 2
  /\ \E k \in 1..Len(results) : ~IsEndpoint(results[k].point)

\* The points an event can be at: the endpoints of the ingested segments
\* and the points where two of them meet.
CandidatePoints ==
  {segments[i].from : i \in 1..Len(segments)}
    \cup {segments[i].to : i \in 1..Len(segments)}
    \cup {roundNearZero(pt) : pt \in ReferencePoints}

\* The candidate points the sweep has not reached yet.
AheadOfSweep(last) ==
  {pt \in CandidatePoints : last = <<>> \/ byY(last[1], pt).n < 0}

\* C6: run() terminates.  Every iteration of its loop moves the sweep
\* position to a candidate point strictly ahead of it, so the finite number
\* of candidate points ahead of the sweep strictly decreases; and every
\* event an iteration adds to the schedule is a point where two segments
\* meet, at or below the new sweep position.
C6_RunTerminates ==
  [][(pc = "running" /\ eventQueue # <<>>) =>
       /\ Cardinality(AheadOfSweep(lastPoint')) < Cardinality(AheadOfSweep(lastPoint))
       /\ \A k \in 1..Len(eventQueue') :
            (\A j \in 1..Len(eventQueue) : eventQueue[j].point # eventQueue'[k].point)
              => /\ \E pt \in ReferencePoints : samePoint(pt, eventQueue'[k].point)
                 /\ RLe(eventQueue'[k].point.y, RAdd(lastPoint'[1].y, EPS))]_vars

\* C6 witness: run() has returned after handling five events or more, one of
\* them scheduled by a probe.
C6_Witness ==
  /\ pc = "idle" /\ runReturn = "results" /\ stepReturn = "none"
  /\ Len(segments) >= 3 /\ Len(calls) >= 2
  /\ \E k \in 1..Len(calls) : ~IsEndpoint(calls[k].point)

\* The points of a list of reports come in sweep order: each is followed by
\* a point with smaller y, or the same y (within EPS) and larger x.
InSweepOrder(reports) ==
  \A k \in 1..(Len(reports) - 1) :
     byY(reports[k].point, reports[k + 1].point).n < 0

\* C7: the results list is in sweep order in every state, from the
\* construction of the driver through the end of run().
C7_SweepOrderOfOutput == InSweepOrder(results)

\* A step of the driver that pops and handles one event: an iteration of the
\* loop of run(), or a call of step() on a non-empty schedule.
HandlesEvent ==
  /\ eventQueue # <<>>
  /\ \/ pc = "running"
     \/ pc = "idle" /\ pc' = "idle"

\* Lines 159-182 carried out for the event just handled, from the driver
\* as it was before the event was popped.
EventCompleted ==
  Probe(UpdateStatus([Driver EXCEPT !.eventQueue = Tail(@)],
                     eventPoint'[1], lower', interior'),
        eventPoint'[1], interior')

\* C8: whatever the callback answered, once an event is handled the segments
\* that end at the point or pass through it have been removed from the
\* status, those that pass through it or start at it have been inserted,
\* and the probes for new events have been made.
C8_CancellationAtEventBoundaries ==
  [][HandlesEvent =>
       /\ sweepStatus' = EventCompleted.sweepStatus
       /\ eventQueue' = EventCompleted.eventQueue]_vars

\* Two canonical segments with the same endpoints, within EPS.
Identical(a, b) == samePoint(a.from, b.from) /\ samePoint(a.to, b.to)

\* The ingested segments that repeat an earlier non-degenerate segment.
DuplicateIds ==
  {i \in 1..Len(segments) :
     /\ ~IsPoint(segments[i])
     /\ \E j \in 1..(i - 1) : Identical(segments[j], segments[i])}

\* The two reports made for the duplicate with id i: they are the reports
\* number 2m-1 and 2m, i being the m-th duplicate ingested.
EndpointsReported(i, m) ==
  /\ Len(calls) >= 2 * m
  /\ samePoint(calls[2 * m - 1].point, segments[i].from)
  /\ samePoint(calls[2 * m].point, segments[i].to)
  /\ \A k \in {2 * m - 1, 2 * m} :
       /\ Len(calls[k].segments) = 2
       /\ samePoint(calls[k].segments[1], segments[i].from)
       /\ samePoint(calls[k].segments[2], segments[i].to)

\* C9: a non-degenerate segment identical to one already scheduled has both
\* its endpoints reported as soon as it is ingested, is listed on no event
\* and is never in the status; the status never holds two identical
\* segments.
C9_IdenticalSegmentIngestion ==
  /\ \A i \in DuplicateIds :
       /\ \A k \in 1..Len(eventQueue) : i \notin Ids(eventQueue[k].from)
       /\ i \notin Ids(sweepStatus)
       /\ EndpointsReported(i, Cardinality({j \in DuplicateIds : j <= i}))
  /\ pc = "ingest" => Len(calls) = 2 * Cardinality(DuplicateIds)
  /\ \A a, b \in 1..Len(sweepStatus) :
       a # b => ~Identical(sweepStatus[a], sweepStatus[b])

\* C9 witness: a duplicate was ingested and the sweep holds the segment it
\* repeats in the status.
C9_Witness ==
  /\ DuplicateIds # {}
  /\ \E i \in DuplicateIds : \E a \in 1..Len(sweepStatus) :
       Identical(sweepStatus[a], segments[i])

\* A call of step(): the only step of the driver that starts and ends idle.
StepCalled == pc = "idle" /\ pc' = "idle"

\* step() on a non-empty schedule pops the earliest event and processes it,
\* and no other: the events behind it are still scheduled.
OneEventProcessed ==
  /\ lastPoint' = <<Head(eventQueue).point>>
  /\ eventPoint'[1].point = Head(eventQueue).point
  /\ \A k \in 2..Len(eventQueue) : \E j \in 1..Len(eventQueue') :
       eventQueue'[j].point = eventQueue[k].point

\* step() on an empty schedule returns false and changes nothing.
NothingToProcess ==
  /\ stepReturn' = "false"
  /\ UNCHANGED <<eventQueue, sweepStatus, results, calls, lastPoint>>

\* C10 as stated: step() processes one event and returns true exactly when
\* the schedule is non-empty after the call.
C10_StepReturnsWorkRemaining ==
  [][StepCalled =>
       /\ eventQueue # <<>> => OneEventProcessed
       /\ eventQueue = <<>> => NothingToProcess
       /\ stepReturn' = "true" <=> eventQueue' # <<>>]_vars

\* C10 amended: step() processes one event and returns true exactly when
\* the schedule was non-empty before the call, that is when it had an event
\* to process.
C10_StepReturnsWorkDone ==
  [][StepCalled =>
       /\ eventQueue # <<>> => OneEventProcessed
       /\ eventQueue = <<>> => NothingToProcess
       /\ stepReturn' = "true" <=> eventQueue # <<>>]_vars

\* C10 witness: step() has just processed the last event of a sweep of
\* crossing segments, returning true on leaving the schedule empty.
C10_Witness ==
  /\ pc = "idle" /\ runReturn = "none" /\ stepReturn = "true"
  /\ eventQueue = <<>> /\ lastPoint # <<>>
  /\ \E k \in 1..Len(calls) : ~IsEndpoint(calls[k].point)

\* A segment whose two endpoints are the same point.
ZeroLength(s) == s.from = s.to

\* A call of addSegment with a zero-length segment.
PointIngested ==
  /\ pc = "ingest" /\ Len(segments') = Len(segments) + 1
  /\ ZeroLength(segments'[Len(segments')])

\* The upper-segment lists of a schedule, keyed by the point of the event.
UpperLists(q) == {<<q[k].point, q[k].from>> : k \in 1..Len(q)}

\* C11: ingesting a zero-length segment calls onError never, leaves every
\* upper-segment list as it was and adds at most the one event of its point,
\* with no upper segments; no zero-length segment is ever in the status.
C11_ZeroLengthSegments ==
  [][/\ PointIngested =>
          /\ errors' = errors
          /\ \E k \in 1..Len(eventQueue') :
               samePoint(eventQueue'[k].point, segments'[Len(segments')].to)
          /\ \/ eventQueue' = eventQueue
             \/ UpperLists(eventQueue') = UpperLists(eventQueue) \cup
                  {<<segments'[Len(segments')].to, <<>> >>}
          /\ Len(eventQueue') <= Len(eventQueue) + 1
     /\ \A k \in 1..Len(sweepStatus') : ~ZeroLength(sweepStatus'[k])]_vars

\* C11 witness: a zero-length segment lying on another segment was ingested
\* and the sweep ran to the end, reporting its point.
C11_Witness ==
  /\ SweepDone /\ runReturn = "results" /\ NoStopRequested
  /\ \E i \in 1..Len(segments) :
       /\ ZeroLength(segments[i])
       /\ \E k \in 1..Len(calls) : samePoint(calls[k].point, segments[i].to)

\* -------------------------------------------- the container under test

\* The sweep driver is not in use.
NoSweep ==
  /\ segments = <<>> /\ eventQueue = <<>> /\ sweepStatus = <<>>
  /\ results = <<>> /\ calls = <<>> /\ lower = <<>> /\ interior = <<>>
  /\ lastPoint = <<>> /\ eventPoint = <<>> /\ errors = 0
  /\ onFound = "default" /\ pc = "ingest"
  /\ runReturn = "none" /\ stepReturn = "none"

\* let redBlackTree = new RedBlackTree()
TreeInit == NoSweep /\ NoTree /\ NoComparison

\* redBlackTree.add(value), of a value the tree does not hold
Add ==
  /\ \E value \in (0..(MaxValue - 1)) \ held :
       /\ tree' = add(tree, value)
       /\ held' = held \cup {value}
  /\ UNCHANGED <<removed, vars, compareVars>>

\* redBlackTree.delete(value), of a value the tree holds
Delete ==
  /\ \E value \in held :
       /\ tree' = delete(tree, value)
       /\ held' = held \ {value}
       /\ removed' = removed \cup {value}
  /\ UNCHANGED <<vars, compareVars>>

TreeNext == Add \/ Delete

TreeSpec == TreeInit /\ [][TreeNext]_allVars

\* The sequence is strictly ascending.
Ascending(seq) == \A i \in 1..(Len(seq) - 1) : seq[i] < seq[i + 1]

\* The values traverseIn hands to its callback are exactly the given ones.
Visits(seq, values) ==
  /\ Len(seq) = Cardinality(values)
  /\ {seq[i] : i \in 1..Len(seq)} = values

\* C12: after any adds of distinct values and deletes of held values, len()
\* is the number of values held and traverseIn visits exactly the held
\* values, in ascending order.
C12_OrderedSetContainer ==
  /\ len(tree) = Cardinality(held)
  /\ Ascending(traverseIn(tree))
  /\ Visits(traverseIn(tree), held)

\* C12 witness: every value has been deleted at some time, and the tree
\* holds several values again that were not added in ascending order.
C12_Witness ==
  /\ removed = 0..(MaxValue - 1)
  /\ Cardinality(held) >= 3
  /\ tree.root[1] # <<>> /\ tree.root[3] # <<>>

\* The handled event made the callback be invoked once, for its point.
EventReported ==
  /\ Len(calls') = Len(calls) + 1
  /\ calls'[Len(calls')].point = Head(eventQueue).point

\* The handled event made no invocation of the callback.
EventNotReported == calls' = calls

\* The report condition on the numbers of upper, interior and lower
\* segments of an event.
Reportable(U, I, L) == U + I + L > 1 \/ (U = 0 /\ L = 0 /\ I > 0)

\* C13: a handled event is reported to the callback exactly when its upper,
\* interior and lower segments satisfy the report condition; otherwise the
\* callback is not invoked.
C13_ReportCondition ==
  [][HandlesEvent =>
       IF Reportable(Len(Head(eventQueue).from), Len(interior'), Len(lower'))
       THEN EventReported
       ELSE EventNotReported]_vars

\* C13 witness: an event with a single interior segment and no other has
\* been handled and reported.
C13_Witness ==
  /\ eventPoint # <<>> /\ eventPoint[1].isReported
  /\ Len(interior) = 1 /\ Len(lower) = 0 /\ Len(eventPoint[1].from) = 0
  /\ calls # <<>> /\ calls[Len(calls)].point = eventPoint[1].point

\* The events of the schedule after the step whose point was not scheduled
\* before it: those a probe inserted.
InsertedEvents ==
  {k \in 1..Len(eventQueue') :
     \A j \in 1..Len(eventQueue) : eventQueue[j].point # eventQueue'[k].point}

\* Point b comes strictly after point a in the schedule order.
StrictlyAfter(a, b) == byY(a, b).n < 0

\* C14: every event a probe inserts while the event at p is handled comes
\* strictly after p in the schedule order, and every popped event point
\* comes strictly after the one popped before it.
C14_ProbesScheduleFuturePoints ==
  [][HandlesEvent =>
       /\ \A k \in InsertedEvents :
            StrictlyAfter(Head(eventQueue).point, eventQueue'[k].point)
       /\ lastPoint # <<>> =>
            StrictlyAfter(lastPoint[1], Head(eventQueue).point)]_vars

\* No two events of the schedule are at the same point, within EPS.
OneEventPerPoint(q) ==
  \A i, j \in 1..Len(q) : i # j => ~samePoint(q[i].point, q[j].point)

\* The event of schedule q at the given point, within EPS (0: none).
EventAt(q, point) ==
  IF \E k \in 1..Len(q) : samePoint(q[k].point, point)
  THEN CHOOSE k \in 1..Len(q) : samePoint(q[k].point, point)
  ELSE 0

\* A call of addSegment that schedules the segment: it is no zero-length
\* segment and repeats no earlier one.
SegmentScheduled ==
  /\ pc = "ingest" /\ Len(segments') = Len(segments) + 1
  /\ ~ZeroLength(segments'[Len(segments')])
  /\ calls' = calls

\* C15: the schedule never holds two events at one point; a segment that
\* starts at a scheduled point is appended to the upper-segment list of the
\* event there, and otherwise gets a new event listing it alone.
C15_OneEventPerPoint ==
  [][/\ OneEventPerPoint(eventQueue')
     /\ SegmentScheduled =>
          LET s == segments'[Len(segments')]
              before == EventAt(eventQueue, s.from)
              after == EventAt(eventQueue', s.from)
          IN  /\ after # 0
              /\ eventQueue'[after].from =
                   IF before = 0 THEN <<s>>
                   ELSE Append(eventQueue[before].from, s)
              /\ Len(eventQueue') <= Len(eventQueue) + (IF before = 0 THEN 2 ELSE 1)]_vars

\* C15 witness: the sweep is under way and two segments starting at one
\* point share the event scheduled there.
C15_Witness ==
  /\ lastPoint # <<>>
  /\ \E k \in 1..Len(eventQueue) : Len(eventQueue[k].from) >= 2

\* The handled event was processed to the end: the callback, if invoked,
\* did not ask to stop.
FullyProcessed ==
  HandlesEvent /\ (calls' = calls \/ ~calls'[Len(calls')].answer)

\* C16: once an event is processed to the end, the status holds the
\* segments it held before except the lower ones, and the upper ones; the
\* lower segments end at the point, the upper ones start there, the
\* interior ones were and still are in the status, each segment once.
C16_StatusUpdatePerEvent ==
  [][FullyProcessed =>
       LET p == Head(eventQueue)
       IN  /\ Ids(sweepStatus') = (Ids(sweepStatus) \ Ids(lower')) \cup Ids(p.from)
           /\ Len(sweepStatus') = Cardinality(Ids(sweepStatus'))
           /\ Ids(interior') \subseteq Ids(sweepStatus) \cap Ids(sweepStatus')
           /\ Ids(lower') \subseteq Ids(sweepStatus)
           /\ \A k \in 1..Len(lower') : samePoint(lower'[k].to, p.point)
           /\ \A k \in 1..Len(p.from) : samePoint(p.from[k].from, p.point)
           /\ \A k \in 1..Len(sweepStatus') :
                sweepStatus'[k] \in {segments[i] : i \in 1..Len(segments)}]_vars

\* C16 witness: an event where one segment ends and another passes through
\* has been processed to the end.
C16_Witness ==
  /\ Len(lower) >= 1 /\ Len(interior) >= 1
  /\ lower[1].id \notin Ids(sweepStatus)
  /\ interior[1].id \in Ids(sweepStatus)

\* from lies above to, or level with it and to its left.
InCanonicalDirection(s) ==
  \/ RLt(s.to.y, s.from.y)
  \/ (s.from.y = s.to.y /\ RLt(s.from.x, s.to.x))

\* The endpoints of the input differ in y by less than the near-zero dy
\* threshold without being level.
NearLevelInput(raw) ==
  /\ raw.from.y # raw.to.y
  /\ RLt(RAbs(RSub(raw.from.y, raw.to.y)), Rat(1, DyDen))

\* C18: every ingested segment other than a zero-length one has its from
\* above its to, or level with it and to its left, and its dy and dx are
\* from.y - to.y and from.x - to.x.
C18_CanonicalDirection ==
  \A k \in 1..Len(segments) :
    LET s == segments[k]
    IN  ~ZeroLength(s) =>
          /\ InCanonicalDirection(s)
          /\ s.dy = RSub(s.from.y, s.to.y)
          /\ s.dx = RSub(s.from.x, s.to.x)

\* C18 witness: two segments were ingested from near-level inputs given in
\* opposite orders, and one from an input given bottom end first.
C18_Witness ==
  /\ \E i \in 1..Len(segments) : \E j \in 1..Len(segments) :
       /\ segments[i].dy.n = 0 /\ segments[j].dy.n = 0
       /\ segments[i].from.y # segments[j].from.y
       /\ \E r1 \in Pool : \E r2 \in Pool :
            /\ NearLevelInput(r1) /\ NearLevelInput(r2)
            /\ r1.from = r2.to /\ r1.to = r2.from
            /\ Canonical(r1, i) = segments[i]
            /\ Canonical(r2, j) = segments[j]
  /\ \E k \in 1..Len(segments) : \E r \in Pool :
       /\ RLt(r.from.y, r.to.y) /\ ~NearLevelInput(r)
       /\ segments[k].from = r.to /\ segments[k].to = r.from

\* The ingested segments that addSegment scheduled: neither zero-length
\* nor a repetition of an earlier segment.
ScheduledIds ==
  {i \in 1..Len(segments) : ~ZeroLength(segments[i])} \ DuplicateIds

\* The from event of the segment has been processed: the segment was
\* scheduled and no event of the schedule lists it any more.
FromProcessed(i) ==
  \A k \in 1..Len(eventQueue) : i \notin Ids(eventQueue[k].from)

\* The to event of the segment has been processed: the sweep has reached
\* its end point.
ToProcessed(i) ==
  IF lastPoint = <<>> THEN FALSE ELSE byY(segments[i].to, lastPoint[1]).n <= 0

CompareInit ==
  /\ NoSweep /\ NoTree
  /\ argLhs \in Values /\ argRhs \in Values
  /\ argLhs.comparable = argRhs.comparable
  /\ answer = <<>>

\* lessThan(lhs, rhs) is called.
LessThan ==
  /\ answer' = <<[op |-> "lessThan", value |-> lessThan(argLhs, argRhs)]>>
  /\ UNCHANGED <<argLhs, argRhs, vars, treeVars>>

\* lessThanOrEqual(lhs, rhs) is called.
LessThanOrEqual ==
  /\ answer' = <<[op |-> "lessThanOrEqual",
                  value |-> lessThanOrEqual(argLhs, argRhs)]>>
  /\ UNCHANGED <<argLhs, argRhs, vars, treeVars>>

\* greaterThan(lhs, rhs) is called.
GreaterThan ==
  /\ answer' = <<[op |-> "greaterThan", value |-> greaterThan(argLhs, argRhs)]>>
  /\ UNCHANGED <<argLhs, argRhs, vars, treeVars>>

\* greaterThanOrEqual(lhs, rhs) is called.
GreaterThanOrEqual ==
  /\ answer' = <<[op |-> "greaterThanOrEqual",
                  value |-> greaterThanOrEqual(argLhs, argRhs)]>>
  /\ UNCHANGED <<argLhs, argRhs, vars, treeVars>>

CompareNext == LessThan \/ LessThanOrEqual \/ GreaterThan \/ GreaterThanOrEqual

CompareSpec == CompareInit /\ [][CompareNext]_allVars

\* The function was called last, on two plain values.
AnsweredPlain(op) ==
  /\ ~argLhs.comparable /\ ~argRhs.comparable
  /\ answer # <<>> /\ answer[1].op = op

\* C20: on two plain values greaterThan(a, b) is lessThan(b, a),
\* greaterThanOrEqual(a, b) is the negation of lessThan(a, b) and
\* lessThanOrEqual(a, b) is the negation of greaterThan(a, b).
C20_ComparisonOperatorsAgree ==
  /\ AnsweredPlain("greaterThan") =>
       (answer[1].value <=> lessThan(argRhs, argLhs))
  /\ AnsweredPlain("greaterThanOrEqual") =>
       (answer[1].value <=> ~lessThan(argLhs, argRhs))
  /\ AnsweredPlain("lessThanOrEqual") =>
       (answer[1].value <=> ~greaterThan(argLhs, argRhs))

====
